---------------------------- MODULE Spec2Model ----------------------------
(***************************************************************************)
(* solid-effect-query: the bridge between an effect runtime, a query cache *)
(* and a reactive component tree.                                          *)
(*                                                                         *)
(* The specifications share the value layer (Cause, Exit, effects):        *)
(*   Spec      the core hooks of makeEffectRuntime: Provider,              *)
(*             useEffectQuery, useEffectInfiniteQuery, useEffectMutation   *)
(*   FairSpec  Spec with the fairness of the runtime's disposal            *)
(*   SpecHttp  makeHttpApiQuery / makeHttpApiMutation with a runtime that  *)
(*             the calling component creates and disposes                  *)
(*   SpecRpc   useRpcQuery / createRpcQuery over a keyed query cache       *)
(*   SpecFn    the functions of the factories applied to drawn inputs      *)
(*   SpecPages useEffectInfiniteQuery fetching pages on a runtime          *)
(***************************************************************************)
EXTENDS Integers, Sequences, FiniteSets, TLC

VARIABLES
    \* ---- core hooks (Spec) ----
    hook,        \* which hook the rendered component uses
    options,     \* the options record the options accessor returns
    provider,    \* "mounted" | "unmounted"
    runtime,     \* "live" | "disposing" | "disposed"
    released,    \* how many times the layer's release action has run
    fiber,       \* the fiber running the queryFn / mutationFn effect
    result,      \* what the query or mutation result exposes
    mpc,         \* position of the mutation in its lifecycle
    mcall,       \* the mutate call in progress: variables, entry point, context
    events,      \* lifecycle callbacks and mutationFn runs, in order
    settled,     \* per mutate call, how the returned promise settled
    \* ---- HTTP endpoint factory (SpecHttp) ----
    hComponent,  \* "mounted" | "cleaned"
    hRuntime,    \* the ManagedRuntime made by the component
    hLayer,      \* the layer that runtime was made from
    hEntry,      \* the query cache entry of the endpoint query
    hMutation,   \* the mutation observer's state
    hRuns,       \* every runPromise call: the runtime state it started on
    \* ---- RPC factory (SpecRpc) ----
    rForm,       \* "hooks" (useRpcQuery) | "direct" (createRpcQuery)
    rStale,      \* the base options passed through: staleTime, enabled
    rPayload,    \* the payload signal's current value
    rObserved,   \* the query observer: mounted, the options record it holds
    rCache,      \* cache key -> entry
    rCalls,      \* remote procedure invocations, in order
    rChanges,    \* how many times the payload signal changed
    \* ---- functions of the factories applied to inputs (SpecFn) ----
    fnName,      \* which function is applied
    fnArgs,      \* its inputs
    fnResult,    \* its outputs, once applied
    \* ---- useEffectInfiniteQuery over a paginated entry (SpecPages) ----
    iRuntime,    \* what the runtime accessor returns now, what the hook holds
    iQuery,      \* the options and the cache entry: pages, pageParams, fetch
    iCalls       \* calls of the caller's queryFn, in order

coreVars == <<hook, options, provider, runtime, released, fiber, result,
              mpc, mcall, events, settled>>
httpVars == <<hComponent, hRuntime, hLayer, hEntry, hMutation, hRuns>>
rpcVars  == <<rForm, rStale, rPayload, rObserved, rCache, rCalls, rChanges>>
fnVars   == <<fnName, fnArgs, fnResult>>
pageVars == <<iRuntime, iQuery, iCalls>>
vars     == <<coreVars, httpVars, rpcVars, fnVars, pageVars>>

-----------------------------------------------------------------------------
(* Bounds of the model *)

\* mutate / mutateAsync calls made on one mutation hook
MaxMutations == 2
\* onInterrupt handlers an effect registers
MaxHandlers == 2
\* fetches the query cache starts for one core query (initial + refetches)
MaxFetches == 2

-----------------------------------------------------------------------------
(* Values *)

Errors  == {"UserNotFound", "ValidationError"}
Defects == {"Unexpected crash!"}
Data    == {"Alice", "Bob"}

\* JavaScript values as the cache sees them: undefined, a plain value, a Cause.
Undefined == [typeId |-> "undefined"]
Plain(v)  == [typeId |-> "Plain", value |-> v]

\* Cause constructors (effect/Cause)
Fail(e)          == [typeId |-> "Cause", tag |-> "Fail", error |-> e]
Die(d)           == [typeId |-> "Cause", tag |-> "Die", defect |-> d]
Interrupt        == [typeId |-> "Cause", tag |-> "Interrupt"]
Parallel(l, r)   == [typeId |-> "Cause", tag |-> "Parallel", left |-> l, right |-> r]
Sequential(l, r) == [typeId |-> "Cause", tag |-> "Sequential", left |-> l, right |-> r]

isCause(u) == u.typeId = "Cause"

RECURSIVE failures(_)
failures(cause) ==
    CASE cause.tag = "Fail" -> <<cause.error>>
      [] cause.tag \in {"Parallel", "Sequential"} ->
            failures(cause.left) \o failures(cause.right)
      [] OTHER -> <<>>

RECURSIVE defects(_)
defects(cause) ==
    CASE cause.tag = "Die" -> <<cause.defect>>
      [] cause.tag \in {"Parallel", "Sequential"} ->
            defects(cause.left) \o defects(cause.right)
      [] OTHER -> <<>>

RECURSIVE isInterrupted(_)
isInterrupted(cause) ==
    CASE cause.tag = "Interrupt" -> TRUE
      [] cause.tag \in {"Parallel", "Sequential"} ->
            isInterrupted(cause.left) \/ isInterrupted(cause.right)
      [] OTHER -> FALSE

\* Either: Left carries the first expected failure, Right the cause itself.
Left(e)  == [either |-> "Left", left |-> e]
Right(c) == [either |-> "Right", right |-> c]
isRight(x) == x.either = "Right"
getLeft(x) == x.left

failureOrCause(cause) ==
    IF failures(cause) # <<>> THEN Left(Head(failures(cause))) ELSE Right(cause)

\* Exit constructors (effect/Exit)
Success(v)    == [tag |-> "Success", value |-> v]
Failure(c)    == [tag |-> "Failure", cause |-> c]
isFailure(x)  == x.tag = "Failure"
isSuccess(x)  == x.tag = "Success"
NoExit        == [tag |-> "none"]

-----------------------------------------------------------------------------
(* Effects: what a queryFn / mutationFn returns.  An effect is a            *)
(* description; `kind` and `value` say how it ends when run to completion,  *)
(* `handlers` how many onInterrupt handlers it registers.                   *)

Effect(k, v, h) == [kind |-> k, value |-> v, handlers |-> h]

Effects ==
    {Effect("succeed", d, h) : d \in Data, h \in {0, MaxHandlers}}
    \cup {Effect("fail", e, 0) : e \in Errors}
    \cup {Effect("die", d, 0) : d \in Defects}
    \cup {Effect("interrupt", "self", 0)}
    \cup {Effect("failAndDie", e, 0) : e \in {"UserNotFound"}}

\* The Exit of an effect that runs to completion.
runExit(effect) ==
    CASE effect.kind = "succeed"    -> Success(effect.value)
      [] effect.kind = "fail"       -> Failure(Fail(effect.value))
      [] effect.kind = "die"        -> Failure(Die(effect.value))
      [] effect.kind = "interrupt"  -> Failure(Interrupt)
      [] effect.kind = "failAndDie" ->
            Failure(Parallel(Fail(effect.value), Die("Unexpected crash!")))


-----------------------------------------------------------------------------
(* Options records: JavaScript objects as functions from field names *)

\* Mutant: the fields the caller supplied win over the generated ones.
spreadKeepsBase(base, over) ==
    [k \in DOMAIN base \cup DOMAIN over |->
        IF k \in DOMAIN base THEN base[k] ELSE over[k]]

\* { ...base, ...over }: the fields of over replace those of base.
spread(base, over) ==
    [k \in DOMAIN base \cup DOMAIN over |->
        IF k \in DOMAIN over THEN over[k] ELSE base[k]]

\* const { taken..., ...rest } = opts
rest(opts, taken) == [k \in DOMAIN opts \ taken |-> opts[k]]

-----------------------------------------------------------------------------
(* Error translation of the synthesized queryFn / mutationFn *)

truthy(flag) == flag = "true"

\* Mutant: the expected failure is unwrapped whatever the flag says.
infiniteRejectionIgnoresFlag(cause, throwOnDefect) ==
    IF failures(cause) # <<>> THEN Plain(Head(failures(cause))) ELSE cause

\* Mutant: the flag is never honoured, the cause is always thrown.
infiniteRejectionNeverUnwraps(cause, throwOnDefect) == cause

\* Mutant: with the flag on, a cause without expected failure is squashed.
infiniteRejectionSquashes(cause, throwOnDefect) ==
    IF truthy(throwOnDefect)
    THEN IF failures(cause) # <<>>
         THEN Plain(Head(failures(cause)))
         ELSE Plain(IF defects(cause) # <<>> THEN Head(defects(cause))
                    ELSE "InterruptedException")
    ELSE cause

\* Mutant: the flag is read the wrong way round.
infiniteRejectionInverted(cause, throwOnDefect) ==
    IF ~truthy(throwOnDefect) /\ failures(cause) # <<>>
    THEN Plain(Head(failures(cause)))
    ELSE cause

\* useEffectInfiniteQuery: what the page fetch throws for a failed Exit.
infiniteRejection(cause, throwOnDefect) ==
    IF truthy(throwOnDefect)
    THEN LET failureOrCause_ == failureOrCause(cause)
         IN  IF isRight(failureOrCause_)
             THEN cause
             ELSE Plain(getLeft(failureOrCause_))
    ELSE cause

\* A cause that represents nothing but an expected failure.
onlyExpected(cause) ==
    /\ failures(cause) # <<>>
    /\ defects(cause) = <<>>
    /\ ~isInterrupted(cause)

\* useEffectQuery / useEffectMutation: the rejection for a failed Exit.
queryRejection(cause, throwOnDefect) ==
    IF truthy(throwOnDefect) /\ onlyExpected(cause)
    THEN Plain(Head(failures(cause)))
    ELSE cause

rejectionOf(h, cause, throwOnDefect) ==
    IF h = "infinite"
    THEN infiniteRejection(cause, throwOnDefect)
    ELSE queryRejection(cause, throwOnDefect)

-----------------------------------------------------------------------------
(* Core hooks: state *)

Hooks        == {"query", "infinite", "mutation"}
Flags        == {"undefined", "false", "true"}
Callbacks    == {"onMutate", "onSuccess", "onError", "onSettled"}
CallbackSets == {{}, {"onMutate", "onSuccess", "onSettled"}, Callbacks}
Layers       == {"succeed", "scoped"}
Null         == [typeId |-> "null"]

NoFiber   == [state |-> "none", exit |-> NoExit, handlersRun |-> 0, runs |-> 0]
NoResult  == [status |-> "pending", data |-> Undefined, error |-> Undefined]
IdleResult == [status |-> "idle", data |-> Undefined, error |-> Undefined]
NoCall    == [id |-> 0, variables |-> "none", mode |-> "none",
              context |-> Undefined, exit |-> NoExit]
Unsettled == [how |-> "pending"]

InitCore ==
    /\ hook \in Hooks
    /\ options \in [effect : Effects, throwOnDefect : Flags,
                    callbacks : IF hook = "mutation" THEN CallbackSets ELSE {{}},
                    layer : Layers]
    /\ provider = "mounted"
    /\ runtime = "live"
    /\ released = 0
    /\ fiber = NoFiber
    /\ result = IF hook = "mutation" THEN IdleResult ELSE NoResult
    /\ mpc = "idle"
    /\ mcall = NoCall
    /\ events = <<>>
    /\ settled = [c \in 1..MaxMutations |-> Unsettled]

-----------------------------------------------------------------------------
(* Core hooks: queries *)

startFiber(f) == [state |-> "running", exit |-> NoExit, handlersRun |-> 0,
                  runs |-> f.runs + 1]

\* The cache calls the synthesized queryFn: the effect starts on the runtime.
QueryFn ==
    /\ hook \in {"query", "infinite"}
    /\ provider = "mounted"
    /\ runtime = "live"
    /\ fiber.state # "running"
    /\ fiber.runs < MaxFetches
    /\ fiber' = startFiber(fiber)
    /\ result' = IF result.data = Undefined THEN NoResult ELSE result
    /\ UNCHANGED <<httpVars, rpcVars, fnVars, pageVars>>
    /\ UNCHANGED <<hook, options, provider, runtime, released,
                   mpc, mcall, events, settled>>

settleResult(h, exit, throwOnDefect) ==
    IF isFailure(exit)
    THEN [status |-> "error", data |-> Undefined,
          error |-> rejectionOf(h, exit.cause, throwOnDefect)]
    ELSE [status |-> "success", data |-> Plain(exit.value), error |-> Undefined]

\* The effect ends; the promise of the queryFn settles; the cache records it.
QuerySettle ==
    /\ hook \in {"query", "infinite"}
    /\ fiber.state = "running"
    /\ LET exit == runExit(options.effect)
       IN  /\ fiber' = [fiber EXCEPT !.state = "done", !.exit = exit]
           /\ result' = settleResult(hook, exit, options.throwOnDefect)
    /\ UNCHANGED <<httpVars, rpcVars, fnVars, pageVars>>
    /\ UNCHANGED <<hook, options, provider, runtime, released,
                   mpc, mcall, events, settled>>

-----------------------------------------------------------------------------
(* Core hooks: Provider and scope teardown *)

\* Mutant: teardown drops the result and leaves the fiber running.
teardownIgnoresFiber(h, f, effect) == f

\* The fiber of a query after its owning scope is torn down.
interruptOnTeardown(h, f, effect) ==
    IF h = "query" /\ f.state = "running"
    THEN [f EXCEPT !.state = "interrupted", !.exit = Failure(Interrupt),
                   !.handlersRun = effect.handlers]
    ELSE f

\* Mutant: the Provider's cleanup forgets the runtime.
unmountKeepsRuntime(r) == r

\* The runtime after the Provider's cleanup ran.
disposeOnUnmount(r) == IF r = "live" THEN "disposing" ELSE r

Unmount ==
    /\ provider = "mounted"
    /\ provider' = "unmounted"
    /\ runtime' = disposeOnUnmount(runtime)
    /\ fiber' = interruptOnTeardown(hook, fiber, options.effect)
    /\ UNCHANGED <<httpVars, rpcVars, fnVars, pageVars>>
    /\ UNCHANGED <<hook, options, released, result, mpc, mcall, events, settled>>

\* What disposal releases: the scoped resources of the layer, once.
releasesOf(layer) == IF layer = "scoped" THEN 1 ELSE 0

\* The disposal effect of the ManagedRuntime completes.
DisposeComplete ==
    /\ runtime = "disposing"
    /\ runtime' = "disposed"
    /\ released' = released + releasesOf(options.layer)
    /\ UNCHANGED <<httpVars, rpcVars, fnVars, pageVars>>
    /\ UNCHANGED <<hook, options, provider, fiber, result, mpc, mcall,
                   events, settled>>

-----------------------------------------------------------------------------
(* Core hooks: mutations.  One mutate call walks the cache's lifecycle:     *)
(* onMutate, mutationFn, then onSuccess or onError, then onSettled.         *)

Modes == {"mutate", "mutateAsync"}

\* The user's mutationFn: a succeeding effect returns what it was given.
mutationFn(effect, variables) ==
    IF effect.kind = "succeed" THEN [effect EXCEPT !.value = variables] ELSE effect

Event(name, args) == [call |-> mcall.id, name |-> name, args |-> args]

\* Mutant: the wrapped callback runs in the hook and again in the cache.
runCallbackTwice(name, args) ==
    IF name \in options.callbacks
    THEN events \o <<Event(name, args), Event(name, args)>>
    ELSE events

\* Runs a lifecycle callback as an effect, when the options provide it.
runCallback(name, args) ==
    IF name \in options.callbacks THEN Append(events, Event(name, args)) ELSE events

Mutate(v, mode) ==
    /\ hook = "mutation"
    /\ provider = "mounted"
    /\ mpc \in {"idle", "done"}
    /\ mcall.id < MaxMutations
    /\ mcall' = [id |-> mcall.id + 1, variables |-> v, mode |-> mode,
                 context |-> Undefined, exit |-> NoExit]
    /\ result' = [status |-> "pending", data |-> Undefined, error |-> Undefined]
    /\ mpc' = "onMutate"
    /\ UNCHANGED <<httpVars, rpcVars, fnVars, pageVars>>
    /\ UNCHANGED <<hook, options, provider, runtime, released, fiber,
                   events, settled>>

OnMutate ==
    /\ mpc = "onMutate"
    /\ events' = runCallback("onMutate", <<Plain(mcall.variables)>>)
    /\ mcall' = [mcall EXCEPT !.context =
                    IF "onMutate" \in options.callbacks
                    THEN Plain(mcall.variables) ELSE Undefined]
    /\ mpc' = "mutationFn"
    /\ UNCHANGED <<httpVars, rpcVars, fnVars, pageVars>>
    /\ UNCHANGED <<hook, options, provider, runtime, released, fiber,
                   result, settled>>

\* The synthesized mutationFn starts the effect on the runtime.
MutationFn ==
    /\ mpc = "mutationFn"
    /\ runtime = "live"
    /\ fiber' = startFiber(fiber)
    /\ events' = Append(events, Event("mutationFn", <<Plain(mcall.variables)>>))
    /\ mpc' = "running"
    /\ UNCHANGED <<httpVars, rpcVars, fnVars, pageVars>>
    /\ UNCHANGED <<hook, options, provider, runtime, released, result,
                   mcall, settled>>

\* The effect ends and the promise of the mutationFn settles.
MutationSettle ==
    /\ mpc = "running"
    /\ fiber.state = "running"
    /\ LET exit == runExit(mutationFn(options.effect, mcall.variables))
       IN  /\ fiber' = [fiber EXCEPT !.state = "done", !.exit = exit]
           /\ mcall' = [mcall EXCEPT !.exit = exit]
           /\ mpc' = IF isFailure(exit) THEN "onError" ELSE "onSuccess"
    /\ UNCHANGED <<httpVars, rpcVars, fnVars, pageVars>>
    /\ UNCHANGED <<hook, options, provider, runtime, released, result,
                   events, settled>>

OnSuccess ==
    /\ mpc = "onSuccess"
    /\ events' = runCallback("onSuccess",
                    <<Plain(mcall.exit.value), Plain(mcall.variables), mcall.context>>)
    /\ mpc' = "onSettled"
    /\ UNCHANGED <<httpVars, rpcVars, fnVars, pageVars>>
    /\ UNCHANGED <<hook, options, provider, runtime, released, fiber,
                   result, mcall, settled>>

mutationError == rejectionOf(hook, mcall.exit.cause, options.throwOnDefect)

OnError ==
    /\ mpc = "onError"
    /\ events' = runCallback("onError",
                    <<mutationError, Plain(mcall.variables), mcall.context>>)
    /\ mpc' = "onSettled"
    /\ UNCHANGED <<httpVars, rpcVars, fnVars, pageVars>>
    /\ UNCHANGED <<hook, options, provider, runtime, released, fiber,
                   result, mcall, settled>>

\* Mutant: mutateAsync rejects with the cause like the cache's own mutateAsync.
settlePromiseRejects(mode, exit) ==
    IF mode = "mutateAsync"
    THEN IF isFailure(exit)
         THEN [how |-> "rejected", value |-> exit]
         ELSE [how |-> "resolved", value |-> exit]
    ELSE [how |-> "ignored"]

\* What the promise returned by the entry point settles with.
settlePromise(mode, exit) ==
    IF mode = "mutateAsync"
    THEN [how |-> "resolved", value |-> exit]
    ELSE [how |-> "ignored"]

OnSettled ==
    /\ mpc = "onSettled"
    /\ events' = runCallback("onSettled",
                    IF isFailure(mcall.exit)
                    THEN <<Undefined, mutationError, Plain(mcall.variables), mcall.context>>
                    ELSE <<Plain(mcall.exit.value), Null, Plain(mcall.variables),
                           mcall.context>>)
    /\ result' = settleResult(hook, mcall.exit, options.throwOnDefect)
    /\ settled' = [settled EXCEPT ![mcall.id] = settlePromise(mcall.mode, mcall.exit)]
    /\ mpc' = "done"
    /\ UNCHANGED <<httpVars, rpcVars, fnVars, pageVars>>
    /\ UNCHANGED <<hook, options, provider, runtime, released, fiber, mcall>>

-----------------------------------------------------------------------------
(* Specifications *)

InitHttpIdle ==
    /\ hComponent = "idle" /\ hRuntime = "idle" /\ hLayer = "idle"
    /\ hEntry = "idle"
    /\ hMutation = "idle" /\ hRuns = <<>>

InitRpcIdle ==
    /\ rForm = "idle" /\ rStale = "idle" /\ rPayload = "idle"
    /\ rObserved = "idle" /\ rCache = "idle" /\ rCalls = <<>> /\ rChanges = 0

InitFnIdle ==
    /\ fnName = "idle" /\ fnArgs = "idle" /\ fnResult = "idle"

InitPagesIdle ==
    /\ iRuntime = "idle" /\ iQuery = "idle" /\ iCalls = <<>>

Init == InitCore /\ InitHttpIdle /\ InitRpcIdle /\ InitFnIdle /\ InitPagesIdle

NextCore ==
    \/ QueryFn
    \/ QuerySettle
    \/ Unmount
    \/ DisposeComplete
    \/ \E v \in Data, mode \in Modes : Mutate(v, mode)
    \/ OnMutate
    \/ MutationFn
    \/ MutationSettle
    \/ OnSuccess
    \/ OnError
    \/ OnSettled

Next == NextCore

Spec == Init /\ [][Next]_vars

\* The runtime's scheduler runs the disposal effect once it is submitted.
FairSpec == Spec /\ WF_vars(DisposeComplete)

-----------------------------------------------------------------------------
(* HTTP endpoint factory: makeHttpApiQuery / makeHttpApiMutation used by a  *)
(* component that makes its own ManagedRuntime and disposes it on cleanup.  *)

\* option changes the component makes while mounted
MaxOptionChanges == 1
\* runPromise calls (query fetches and mutations) in one behaviour
MaxRuns == 2

Group    == "todos"
Endpoint == "getTodo"

\* Request field values as JavaScript values; "undefined" is a field not given.
PathValues    == {"undefined", "{id:1}"}
PayloadValues == {"undefined"}
falsy(v) == v \in {"undefined", "0", "''", "false", "null"}

HttpOpts == [path : PathValues, urlParams : {"undefined"},
             payload : PayloadValues, headers : {"undefined"},
             runtime : {"runtime"}]

\* The spread of a field into the key: its label and value, when truthy.
keyPart(label, v) == IF falsy(v) THEN <<>> ELSE <<label, v>>

httpQueryKey(group, endpoint, opts) ==
    <<"httpApi", group, endpoint>>
        \o keyPart("path", opts.path)
        \o keyPart("urlParams", opts.urlParams)
        \o keyPart("payload", opts.payload)
        \o keyPart("headers", opts.headers)

\* The memoized options record of a query: the caller's remaining options,
\* then the generated key and the queryFn with what its closure holds.
queryOptions(group, endpoint, opts) ==
    spread(rest(opts, {"path", "urlParams", "payload", "headers", "runtime"}),
           [queryKey |-> httpQueryKey(group, endpoint, opts),
            queryFn  |-> [group |-> group, endpoint |-> endpoint,
                          path |-> opts.path, urlParams |-> opts.urlParams,
                          payload |-> opts.payload, headers |-> opts.headers,
                          runtime |-> opts.runtime]])

\* The memoized options record of a mutation: the request fields come with
\* the variables of each mutate call.
mutationOptions(group, endpoint, opts) ==
    spread(rest(opts, {"runtime"}),
           [mutationFn |-> [group |-> group, endpoint |-> endpoint,
                            request |-> "variables",
                            runtime |-> opts.runtime]])

\* What the runtime's layer provides, and how the server answers a request.
HttpLayers == {"FetchHttpClient.layer", "Layer.empty"}
Responses  == {"200", "404", "network"}
ServiceNotFound == "Service not found: @effect/platform/HttpClient"
providesClient(layer) == layer = "FetchHttpClient.layer"

\* Mutant: the endpoint answers whether or not the client could be built.
endpointExitIgnoresLayer(layer, response) ==
    CASE response = "200"     -> Success("decoded")
      [] response = "404"     -> Failure(Fail("ErrorSchema"))
      [] response = "network" -> Failure(Fail("RequestError"))

\* The Exit of `clientEffect` followed by `clientEndpoint(request)`, scoped:
\* without the HttpClient service the client cannot be built and the fiber
\* dies; with it the endpoint decodes the response, fails with the declared
\* error of the endpoint, or fails with the client's request error.
endpointExit(layer, response) ==
    IF ~providesClient(layer)
    THEN Failure(Die(ServiceNotFound))
    ELSE CASE response = "200"     -> Success("decoded")
           [] response = "404"     -> Failure(Fail("ErrorSchema"))
           [] response = "network" -> Failure(Fail("RequestError"))

\* The error object runPromise rejects with: it carries the cause, it is
\* not a Cause.
FiberFailure(cause) == [typeId |-> "FiberFailure", cause |-> cause]

\* How the promise of runtime.runPromise(effect) settles for an Exit.
runPromiseSettles(exit) ==
    IF isFailure(exit)
    THEN [how |-> "rejected", value |-> FiberFailure(exit.cause)]
    ELSE [how |-> "resolved", value |-> Plain(exit.value)]

\* What the cache records when the promise of a queryFn / mutationFn settles.
recordSettled(x, promise) ==
    IF promise.how = "rejected"
    THEN [x EXCEPT !.status = "error", !.error = promise.value]
    ELSE [x EXCEPT !.status = "success", !.data = promise.value,
                   !.error = Undefined]

NoEntry == [status |-> "pending", data |-> Undefined, error |-> Undefined,
            fetching |-> FALSE, run |-> 0,
            options |-> queryOptions(Group, Endpoint,
                          [path |-> "undefined", urlParams |-> "undefined",
                           payload |-> "undefined", headers |-> "undefined",
                           runtime |-> "runtime"])]

InitHttp ==
    /\ hComponent = "mounted"
    /\ hRuntime = "live"
    /\ hLayer \in HttpLayers
    /\ \E opts \in HttpOpts :
          hEntry = [changes |-> 0,
                    observed |-> queryOptions(Group, Endpoint, opts),
                    cache |-> [k \in {httpQueryKey(Group, Endpoint, opts)} |->
                                 [NoEntry EXCEPT !.options =
                                     queryOptions(Group, Endpoint, opts)]]]
    /\ hMutation = [status |-> "idle", data |-> Undefined, error |-> Undefined,
                    running |-> FALSE, run |-> 0]
    /\ hRuns = <<>>

\* A reactive value read by the options accessor changes: the memo rebuilds
\* the options record and the observer moves to the entry of the new key.
HSetOptions(opts) ==
    /\ hComponent = "mounted"
    /\ hEntry.changes < MaxOptionChanges
    /\ queryOptions(Group, Endpoint, opts) # hEntry.observed
    /\ LET o == queryOptions(Group, Endpoint, opts)
           k == o.queryKey
       IN  hEntry' = [changes |-> hEntry.changes + 1,
                      observed |-> o,
                      cache |-> [x \in DOMAIN hEntry.cache \cup {k} |->
                                   IF x = k
                                   THEN IF k \in DOMAIN hEntry.cache
                                        THEN [hEntry.cache[k] EXCEPT !.options = o]
                                        ELSE [NoEntry EXCEPT !.options = o]
                                   ELSE hEntry.cache[x]]]
    /\ UNCHANGED <<coreVars, rpcVars, fnVars, pageVars>>
    /\ UNCHANGED <<hComponent, hRuntime, hLayer, hMutation, hRuns>>

\* Mutant: the queryFn reads the options accessor when it is called.
requestReadLate(fn) ==
    [f \in {"path", "urlParams", "payload", "headers"} |->
        hEntry.observed.queryFn[f]]

\* The request of the endpoint call: the fields the closure holds (for a
\* mutation, the fields of the variables).
requestOf(fn) ==
    [f \in {"path", "urlParams", "payload", "headers"} |-> fn[f]]

\* Mutant: the effect is started twice for one call.
runPromiseTwice(kind, fn) ==
    LET run == [kind |-> kind, runtime |-> hRuntime, request |-> requestOf(fn),
                built |-> providesClient(hLayer),
                aborted |-> FALSE, state |-> "running",
                response |-> "none", acquired |-> 0, released |-> 0]
    IN  hRuns \o <<run, run>>

\* runtime.runPromise(effect): the effect starts on the runtime as it is now;
\* its first step runs clientEffect, which builds the client (and calls
\* transformClient) when the runtime provides the HttpClient service.
runPromise(kind, fn) ==
    Append(hRuns, [kind |-> kind, runtime |-> hRuntime,
                   request |-> requestOf(fn),
                   built |-> providesClient(hLayer),
                   aborted |-> FALSE, state |-> "running",
                   response |-> "none", acquired |-> 0, released |-> 0])

\* What the call acquires in its scope once it has a client: the connection
\* of the request it sends, whatever the server answers.
acquiredBy(layer) == IF providesClient(layer) THEN 1 ELSE 0

\* Mutant: the scope is closed on the success path only.
scopedOnSuccessOnly(acquired, exit) == IF isSuccess(exit) THEN acquired ELSE 0

\* Effect.scoped: when the effect ends the scope closes with its Exit and
\* releases everything acquired in it.
scoped(acquired, exit) == acquired

\* The run of a call whose effect ended with the Exit of this response.
endRun(run, response) ==
    [run EXCEPT !.state = "done",
                !.acquired = acquiredBy(hLayer),
                !.released = scoped(acquiredBy(hLayer),
                                    endpointExit(hLayer, response))]

\* The query cache calls the queryFn it holds for an entry: the first fetch
\* of an observed key, a refetch, or a refetch of an entry that no mounted
\* component observes any more.
HQueryFn(k) ==
    /\ k \in DOMAIN hEntry.cache
    /\ ~hEntry.cache[k].fetching
    /\ Len(hRuns) < MaxRuns
    /\ hRuns' = runPromise("query", hEntry.cache[k].options.queryFn)
    /\ hEntry' = [hEntry EXCEPT !.cache[k].fetching = TRUE,
                                !.cache[k].run = Len(hRuns) + 1]
    /\ UNCHANGED <<coreVars, rpcVars, fnVars, pageVars>>
    /\ UNCHANGED <<hComponent, hRuntime, hLayer, hMutation>>

\* The effect of a fetch ends and the promise of the queryFn settles.
HQuerySettle(k, response) ==
    /\ k \in DOMAIN hEntry.cache
    /\ hEntry.cache[k].fetching
    /\ LET promise == runPromiseSettles(endpointExit(hLayer, response))
           entry   == [hEntry.cache[k] EXCEPT !.fetching = FALSE]
       IN  hEntry' = [hEntry EXCEPT !.cache[k] = recordSettled(entry, promise)]
    /\ hRuns' = [hRuns EXCEPT ![hEntry.cache[k].run] =
                                  [endRun(@, response) EXCEPT !.response = response]]
    /\ UNCHANGED <<coreVars, rpcVars, fnVars, pageVars>>
    /\ UNCHANGED <<hComponent, hRuntime, hLayer, hMutation>>

\* What the queryFn does with the abort signal of its fetch: the function
\* takes no argument, the signal fires and the fiber is left as it is.
onAbort(run) == [run EXCEPT !.aborted = TRUE]

\* The cache cancels the in-flight fetch of an entry (cancelQueries, or a
\* removal of the entry): the signal fires, the entry goes back to the state
\* it had before the fetch and the promise's outcome will be ignored.
HCancel(k) ==
    /\ k \in DOMAIN hEntry.cache
    /\ hEntry.cache[k].fetching
    /\ hEntry' = [hEntry EXCEPT !.cache[k].fetching = FALSE]
    /\ hRuns' = [hRuns EXCEPT ![hEntry.cache[k].run] = onAbort(@)]
    /\ UNCHANGED <<coreVars, rpcVars, fnVars, pageVars>>
    /\ UNCHANGED <<hComponent, hRuntime, hLayer, hMutation>>

\* The effect of a cancelled fetch ends; nobody looks at its outcome.
HFiberEnd(i) ==
    /\ i \in DOMAIN hRuns
    /\ hRuns[i].aborted
    /\ hRuns[i].state = "running"
    /\ \E response \in Responses : hRuns' = [hRuns EXCEPT ![i] = endRun(@, response)]
    /\ UNCHANGED <<coreVars, rpcVars, fnVars, pageVars>>
    /\ UNCHANGED <<hComponent, hRuntime, hLayer, hEntry, hMutation>>

\* mutate(variables): the cache calls the mutationFn.
HMutationFn(variables) ==
    /\ ~hMutation.running
    /\ Len(hRuns) < MaxRuns
    /\ hRuns' = runPromise("mutation", variables)
    /\ hMutation' = [hMutation EXCEPT !.status = "pending", !.running = TRUE,
                                      !.run = Len(hRuns) + 1]
    /\ UNCHANGED <<coreVars, rpcVars, fnVars, pageVars>>
    /\ UNCHANGED <<hComponent, hRuntime, hLayer, hEntry>>

HMutationSettle(response) ==
    /\ hMutation.running
    /\ LET promise == runPromiseSettles(endpointExit(hLayer, response))
       IN  hMutation' = recordSettled([hMutation EXCEPT !.running = FALSE],
                                      promise)
    /\ hRuns' = [hRuns EXCEPT ![hMutation.run] =
                                  [endRun(@, response) EXCEPT !.response = response]]
    /\ UNCHANGED <<coreVars, rpcVars, fnVars, pageVars>>
    /\ UNCHANGED <<hComponent, hRuntime, hLayer, hEntry>>

\* onCleanup(() => runtime.dispose()): disposal begins, nothing else is told.
HCleanup ==
    /\ hComponent = "mounted"
    /\ hComponent' = "cleaned"
    /\ hRuntime' = "disposing"
    /\ UNCHANGED <<coreVars, rpcVars, fnVars, pageVars>>
    /\ UNCHANGED <<hLayer, hEntry, hMutation, hRuns>>

HDisposeComplete ==
    /\ hRuntime = "disposing"
    /\ hRuntime' = "disposed"
    /\ UNCHANGED <<coreVars, rpcVars, fnVars, pageVars>>
    /\ UNCHANGED <<hComponent, hLayer, hEntry, hMutation, hRuns>>

InitCoreIdle ==
    /\ hook = "idle" /\ options = "idle" /\ provider = "idle"
    /\ runtime = "idle" /\ released = 0 /\ fiber = "idle" /\ result = "idle"
    /\ mpc = "idle" /\ mcall = "idle" /\ events = <<>> /\ settled = "idle"

HttpKeys == {httpQueryKey(Group, Endpoint, o) : o \in HttpOpts}

NextHttp ==
    \/ \E opts \in HttpOpts : HSetOptions(opts)
    \/ \E k \in HttpKeys : HQueryFn(k)
    \/ \E k \in HttpKeys, response \in Responses : HQuerySettle(k, response)
    \/ \E k \in HttpKeys : HCancel(k)
    \/ \E i \in 1..MaxRuns : HFiberEnd(i)
    \/ \E v \in {o \in HttpOpts : o.path = "{id:1}"} : HMutationFn(v)
    \/ \E response \in Responses : HMutationSettle(response)
    \/ HCleanup
    \/ HDisposeComplete

InitSpecHttp ==
    InitHttp /\ InitCoreIdle /\ InitRpcIdle /\ InitFnIdle /\ InitPagesIdle

SpecHttp == InitSpecHttp /\ [][NextHttp]_vars

\* A fetch that was started settles: the runtime runs the fiber it forked.
FairSpecHttp ==
    SpecHttp /\ \A k \in HttpKeys : WF_vars(\E r \in Responses : HQuerySettle(k, r))

-----------------------------------------------------------------------------
(* RPC factory: useRpcQuery (bound hooks) and createRpcQuery (direct form)  *)
(* over a query cache keyed by [tag, payload].                              *)

\* changes of the payload signal in one behaviour
MaxChanges == 3
\* refetches the application asks the cache for (refetch / invalidate)
MaxRefetches == 1

Tag        == "getUser"
PayloadIds == {1, 2, 3}
StaleTimes == {0, 30000}

\* What the remote procedure answers: the user the payload names.
remote(tag, payload) == <<"User", tag, payload>>

\* Mutant: the key names the procedure only.
rpcQueryKeyTagOnly(tag, currentPayload) == <<tag>>

\* queryKey: [tag, currentPayload]
rpcQueryKey(tag, currentPayload) == <<tag, currentPayload>>

\* Mutant: the queryFn reads the payload accessor when it is called.
sentPayloadReadLate(fn) == rPayload

\* The payload the queryFn hands to service.client: the one it closed over.
sentPayload(fn) == fn.currentPayload

\* The options record built by the accessor handed to useEffectQuery.
rpcOptions(tag, currentPayload, baseOptions) ==
    spread(baseOptions,
           [queryKey |-> rpcQueryKey(tag, currentPayload),
            queryFn  |-> [tag |-> tag, currentPayload |-> currentPayload]])

NoRpcEntry == [data |-> Undefined, fetching |-> FALSE, fresh |-> FALSE,
               sent |-> 0,
               queryFn |-> [tag |-> Tag, currentPayload |-> 0]]

\* Whether the cache fetches when an observer arrives at an entry.
shouldFetch(cache, o) ==
    /\ o.enabled
    /\ \/ o.queryKey \notin DOMAIN cache
       \/ /\ ~cache[o.queryKey].fetching
          /\ \/ cache[o.queryKey].data = Undefined
             \/ o.staleTime = 0
             \/ ~cache[o.queryKey].fresh

\* service.client(tag, payload) is invoked: the remote call is on its way.
invoke(why, fn) ==
    Append(rCalls, [why |-> why, tag |-> fn.tag, payload |-> sentPayload(fn)])

\* The cache after the observer arrived at the entry of options o.
observe(cache, o) ==
    [k \in DOMAIN cache \cup {o.queryKey} |->
        IF k = o.queryKey
        THEN LET e == IF k \in DOMAIN cache THEN cache[k] ELSE NoRpcEntry
             IN  IF shouldFetch(cache, o)
                 THEN [e EXCEPT !.queryFn = o.queryFn, !.fetching = TRUE,
                                !.sent = sentPayload(o.queryFn)]
                 ELSE [e EXCEPT !.queryFn = o.queryFn]
        ELSE cache[k]]

\* The entry the observer left: its fetch is cancelled, or left to finish.
leave(cache, k, cancel) ==
    IF k \in DOMAIN cache /\ cache[k].fetching /\ cancel
    THEN [cache EXCEPT ![k].fetching = FALSE]
    ELSE cache

InitRpc ==
    /\ rForm \in {"hooks", "direct"}
    /\ rStale \in [staleTime : StaleTimes, enabled : BOOLEAN]
    /\ rPayload \in PayloadIds
    /\ rObserved = [mounted |-> FALSE, sequential |-> TRUE, refetches |-> 0,
                    options |-> rpcOptions(Tag, rPayload, rStale)]
    /\ rCache = [k \in {} |-> NoRpcEntry]
    /\ rCalls = <<>>
    /\ rChanges = 0

\* The hook is created under an owner: the observer subscribes, the cache
\* creates the entry and starts the first fetch.
RMount ==
    /\ ~rObserved.mounted
    /\ LET o == rpcOptions(Tag, rPayload, rStale)
       IN  /\ rObserved' = [rObserved EXCEPT !.mounted = TRUE, !.options = o]
           /\ rCache' = observe(rCache, o)
           /\ rCalls' = IF shouldFetch(rCache, o)
                        THEN invoke("mount", o.queryFn) ELSE rCalls
    /\ UNCHANGED <<coreVars, httpVars, fnVars, pageVars>>
    /\ UNCHANGED <<rForm, rStale, rPayload, rChanges>>

anyFetching == \E k \in DOMAIN rCache : rCache[k].fetching

\* The payload signal is set to a new value: the options accessor reruns in
\* the same batch and the observer moves to the entry of the new key (an
\* unchanged key leaves the observer where it is and fetches nothing).
RSetPayload(p, cancel) ==
    /\ rObserved.mounted
    /\ p # rPayload
    /\ rChanges < MaxChanges
    /\ LET o    == rpcOptions(Tag, p, rStale)
           left == leave(rCache, rObserved.options.queryKey,
                         cancel /\ o.queryKey # rObserved.options.queryKey)
           moved == o.queryKey # rObserved.options.queryKey
       IN  /\ rObserved' = [rObserved EXCEPT !.options = o,
                               !.sequential = rObserved.sequential /\ ~anyFetching]
           /\ rCache' = IF moved THEN observe(left, o)
                         ELSE [rCache EXCEPT ![o.queryKey].queryFn = o.queryFn]
           /\ rCalls' = IF moved /\ shouldFetch(left, o)
                        THEN invoke("change", o.queryFn) ELSE rCalls
    /\ rPayload' = p
    /\ rChanges' = rChanges + 1
    /\ UNCHANGED <<coreVars, httpVars, fnVars, pageVars>>
    /\ UNCHANGED <<rForm, rStale>>

\* The fetch of an entry settles: the cache stores the answer under its key.
RSettle(k) ==
    /\ k \in DOMAIN rCache
    /\ rCache[k].fetching
    /\ rCache' = [rCache EXCEPT ![k].fetching = FALSE,
                                ![k].fresh = rStale.staleTime > 0,
                                ![k].data = Plain(remote(rCache[k].queryFn.tag,
                                                         rCache[k].sent))]
    /\ UNCHANGED <<coreVars, httpVars, fnVars, pageVars>>
    /\ UNCHANGED <<rForm, rStale, rPayload, rObserved, rCalls, rChanges>>

\* The application asks the cache to refetch an entry, observed or not:
\* the cache calls the queryFn it holds for that entry.
RRefetch(k) ==
    /\ rObserved.mounted
    /\ k \in DOMAIN rCache
    /\ ~rCache[k].fetching
    /\ rObserved.refetches < MaxRefetches
    /\ rObserved' = [rObserved EXCEPT !.refetches = rObserved.refetches + 1]
    /\ rCache' = [rCache EXCEPT ![k].fetching = TRUE,
                                ![k].sent = sentPayload(rCache[k].queryFn)]
    /\ rCalls' = invoke("refetch", rCache[k].queryFn)
    /\ UNCHANGED <<coreVars, httpVars, fnVars, pageVars>>
    /\ UNCHANGED <<rForm, rStale, rPayload, rChanges>>

\* Time passes beyond the staleTime of an entry: its data is stale now.
RElapse(k) ==
    /\ k \in DOMAIN rCache
    /\ rCache[k].fresh
    /\ rCache' = [rCache EXCEPT ![k].fresh = FALSE]
    /\ UNCHANGED <<coreVars, httpVars, fnVars, pageVars>>
    /\ UNCHANGED <<rForm, rStale, rPayload, rObserved, rCalls, rChanges>>

RpcKeys == {rpcQueryKey(Tag, p) : p \in PayloadIds}

NextRpc ==
    \/ RMount
    \/ \E p \in PayloadIds, cancel \in BOOLEAN : RSetPayload(p, cancel)
    \/ \E k \in RpcKeys : RSettle(k)
    \/ \E k \in RpcKeys : RRefetch(k)
    \/ \E k \in RpcKeys : RElapse(k)

InitSpecRpc ==
    InitRpc /\ InitCoreIdle /\ InitHttpIdle /\ InitFnIdle /\ InitPagesIdle

SpecRpc == InitSpecRpc /\ [][NextRpc]_vars

-----------------------------------------------------------------------------
(* The functions of the factories, applied to inputs: the key builders of   *)
(* the RPC and HTTP factories and the effect an RPC queryFn / mutationFn    *)
(* builds.  One behaviour draws the inputs and applies one function.        *)

NotApplied == [typeId |-> "notApplied"]

\* ---- RPC keys ----
RpcTags     == {"getUser", "listUsers"}
RpcPayloads == {[id |-> 1], [id |-> 2], [id |-> 3]}
RpcQueryForms == {"useRpcQuery", "createRpcQuery"}

\* Mutant: the direct form keys by payload only.
createRpcQueryKeyPayloadOnly(tag, currentPayload) == <<currentPayload>>

\* createRpcQuery: queryKey: [tag, currentPayload]
createRpcQueryKey(tag, currentPayload) == <<tag, currentPayload>>

keyOfForm(form, tag, currentPayload) ==
    IF form = "useRpcQuery"
    THEN rpcQueryKey(tag, currentPayload)
    ELSE createRpcQueryKey(tag, currentPayload)

RpcKeyInputs == [form : RpcQueryForms, tag : RpcTags, payload : RpcPayloads]

ApplyRpcQueryKey ==
    /\ fnName = "rpcQueryKey"
    /\ fnResult = NotApplied
    /\ fnResult' = [i \in {1, 2} |->
                      keyOfForm(fnArgs[i].form, fnArgs[i].tag, fnArgs[i].payload)]
    /\ UNCHANGED <<coreVars, httpVars, rpcVars, pageVars>>
    /\ UNCHANGED <<fnName, fnArgs>>

\* ---- HTTP keys ----
\* Request fields as JavaScript values; "undefined" is a field not supplied.
KeyPathValues      == {"undefined", "{id:1}", "{id:2}"}
KeyUrlParamsValues == {"undefined", "{q:'a'}"}
KeyPayloadValues   == {"undefined", "0", "''", "false", "null", "{title:'a'}"}
KeyHeadersValues   == {"undefined", "{x:'1'}"}

KeyOpts == [path : KeyPathValues, urlParams : KeyUrlParamsValues,
            payload : KeyPayloadValues, headers : KeyHeadersValues]

ApplyHttpQueryKey ==
    /\ fnName = "httpQueryKey"
    /\ fnResult = NotApplied
    /\ fnResult' = [i \in {1, 2} |-> httpQueryKey(Group, Endpoint, fnArgs[i])]
    /\ UNCHANGED <<coreVars, httpVars, rpcVars, pageVars>>
    /\ UNCHANGED <<fnName, fnArgs>>

\* ---- the effect built by an RPC queryFn / mutationFn ----
RpcForms == {"useRpcQuery", "createRpcQuery", "useRpcMutation", "createRpcMutation"}
Services == {"provided", "missing"}
RemoteExits ==
    {Success(d) : d \in Data}
    \cup {Failure(Fail(e)) : e \in Errors}
    \cup {Failure(Die(d)) : d \in Defects}

\* Mutant: a missing service is an expected failure of the lookup.
serviceLookupFails(service) ==
    IF service = "provided"
    THEN Success("client")
    ELSE Failure(Fail("NoSuchElementException"))

\* `yield* clientTag` on the runtime's context: the service, or the fiber
\* dies with "Service not found".
serviceLookup(service) ==
    IF service = "provided"
    THEN Success("client")
    ELSE Failure(Die("Service not found: TestRpcClient"))

\* Effect.catchTag("NoSuchElementException", ... Effect.die(...)): only an
\* expected failure with that tag is caught.
catchNoSuchElement(exit) ==
    IF isFailure(exit) /\ exit.cause = Fail("NoSuchElementException")
    THEN Failure(Die("TasksClient service not found"))
    ELSE exit

\* Mutant: the factory wraps the procedure's error in an error of its own.
thenClientWraps(lookup, remoteExit) ==
    IF isFailure(lookup) THEN lookup
    ELSE IF isFailure(remoteExit) /\ failures(remoteExit.cause) # <<>>
         THEN Failure(Fail(<<"RpcError", Head(failures(remoteExit.cause))>>))
         ELSE remoteExit

\* The lookup followed by client(tag, payload); tap and tapError only log.
thenClient(lookup, remoteExit) ==
    IF isFailure(lookup) THEN lookup ELSE remoteExit

\* The Exit of the effect the form's queryFn / mutationFn returns.
rpcExit(form, service, remoteExit) ==
    IF form = "useRpcQuery"
    THEN thenClient(catchNoSuchElement(serviceLookup(service)), remoteExit)
    ELSE thenClient(serviceLookup(service), remoteExit)

RpcFnInputs == [form : RpcForms, service : Services, remote : RemoteExits,
                throwOnDefect : Flags]

\* The hook runs the effect and hands the cache the value or the rejection.
ApplyRpcQueryFn ==
    /\ fnName = "rpcQueryFn"
    /\ fnResult = NotApplied
    /\ LET exit == rpcExit(fnArgs.form, fnArgs.service, fnArgs.remote)
       IN  fnResult' =
             [exit |-> exit,
              result |-> settleResult("query", exit, fnArgs.throwOnDefect)]
    /\ UNCHANGED <<coreVars, httpVars, rpcVars, pageVars>>
    /\ UNCHANGED <<fnName, fnArgs>>

\* ---- the bound-hooks form and the direct form, on the same inputs ----
CallerFn == [typeId |-> "callerFn"]
Callback(behaviour) == [typeId |-> "callback", behaviour |-> behaviour]

\* What the caller may put in the options accessor of a query ...
QueryBaseOptions ==
    {rest([queryKey |-> <<"custom", "key">>, queryFn |-> CallerFn,
           staleTime |-> 5000], absent) :
        absent \in SUBSET {"queryKey", "queryFn", "staleTime"}}

\* ... and of a mutation: callbacks that return or throw when called.
MutationBaseOptions ==
    {rest([mutationFn |-> CallerFn, retry |-> 3,
           onMutate |-> Callback(b[1]), onSuccess |-> Callback(b[2]),
           onError |-> Callback(b[3]), onSettled |-> Callback(b[4])], absent) :
        b \in [1..4 -> {"returns", "throws"}],
        absent \in SUBSET ({"mutationFn", "retry"} \cup Callbacks)}

\* createRpcQuery: the options record handed to useEffectQuery.
createRpcQueryOptions(tag, currentPayload, baseOptions) ==
    spread(baseOptions,
           [queryKey |-> createRpcQueryKey(tag, currentPayload),
            queryFn  |-> [tag |-> tag, currentPayload |-> currentPayload]])

\* baseOptions.onX ? (...args) => Effect.sync(() => baseOptions.onX(...args))
\*                 : undefined
\* `passes` lists which of its arguments the wrapper hands to the callback.
wrapped(baseOptions, name, arity) ==
    IF name \in DOMAIN baseOptions
    THEN [typeId |-> "wrapped", callback |-> baseOptions[name],
          passes |-> [i \in 1..arity |-> i]]
    ELSE Undefined

\* useRpcMutation: the options record handed to useEffectMutation.
useRpcMutationOptions(tag, baseOptions) ==
    spread(baseOptions,
           [mutationFn |-> [tag |-> tag, passes |-> <<1>>],
            onMutate   |-> wrapped(baseOptions, "onMutate", 1),
            onSuccess  |-> wrapped(baseOptions, "onSuccess", 3),
            onError    |-> wrapped(baseOptions, "onError", 3),
            onSettled  |-> wrapped(baseOptions, "onSettled", 4)])

\* Mutant: the direct form hands onSuccess the data only.
createRpcMutationOptionsDataOnly(tag, baseOptions) ==
    spread(baseOptions,
           [mutationFn |-> [tag |-> tag, passes |-> <<1>>],
            onMutate   |-> wrapped(baseOptions, "onMutate", 1),
            onSuccess  |-> wrapped(baseOptions, "onSuccess", 1),
            onError    |-> wrapped(baseOptions, "onError", 3),
            onSettled  |-> wrapped(baseOptions, "onSettled", 4)])

\* createRpcMutation: the options record handed to useEffectMutation.
createRpcMutationOptions(tag, baseOptions) ==
    spread(baseOptions,
           [mutationFn |-> [tag |-> tag, passes |-> <<1>>],
            onMutate   |-> wrapped(baseOptions, "onMutate", 1),
            onSuccess  |-> wrapped(baseOptions, "onSuccess", 3),
            onError    |-> wrapped(baseOptions, "onError", 3),
            onSettled  |-> wrapped(baseOptions, "onSettled", 4)])

\* Mutant: a callback that throws leaves its wrapper's effect successful.
syncSwallows(callback) == Success("returned")

\* Effect.sync(() => callback(...)): a thrown value becomes a defect.
sync(callback) ==
    IF callback.behaviour = "throws"
    THEN Failure(Die("thrown"))
    ELSE Success("returned")

\* The hook runs a callback's effect on the runtime: a failure is not
\* caught, the promise handed to the cache rejects with the Cause.
callbackSettles(exit) ==
    IF isFailure(exit)
    THEN [how |-> "rejected", value |-> exit.cause]
    ELSE [how |-> "resolved", value |-> Plain(exit.value)]

\* What one form does with the inputs a: the options record it hands on, the
\* invocation of the client, the outcome, and each wrapped callback run.
rpcOutcome(form, a) ==
    LET o == CASE form = "useRpcQuery" -> rpcOptions(a.tag, a.payload, a.base)
               [] form = "createRpcQuery" ->
                     createRpcQueryOptions(a.tag, a.payload, a.base)
               [] form = "useRpcMutation" -> useRpcMutationOptions(a.tag, a.base)
               [] form = "createRpcMutation" ->
                     createRpcMutationOptions(a.tag, a.base)
        exit == rpcExit(form, a.service, a.remote)
        isQuery == form \in RpcQueryForms
    IN  [options |-> o,
         invoked |-> IF a.service = "missing" THEN <<>>
                     ELSE IF isQuery
                          THEN <<o.queryFn.tag, o.queryFn.currentPayload>>
                          ELSE <<o.mutationFn.tag,
                                 <<a.payload>>[o.mutationFn.passes[1]]>>,
         exit    |-> exit,
         result  |-> settleResult(IF isQuery THEN "query" ELSE "mutation",
                                  exit, a.throwOnDefect),
         callbacks |->
            [n \in IF isQuery THEN {} ELSE Callbacks |->
                IF o[n] = Undefined
                THEN [passes |-> <<>>, exit |-> NoExit,
                      settles |-> [how |-> "notCalled"]]
                ELSE [passes |-> o[n].passes,
                      exit |-> sync(o[n].callback),
                      settles |-> callbackSettles(sync(o[n].callback))]]]

RpcFormInputs ==
    [kind : {"query"}, tag : RpcTags, payload : RpcPayloads,
     service : Services, remote : RemoteExits, throwOnDefect : Flags,
     base : QueryBaseOptions]
    \cup
    [kind : {"mutation"}, tag : RpcTags, payload : RpcPayloads,
     service : Services, remote : RemoteExits, throwOnDefect : {"undefined"},
     base : MutationBaseOptions]

ApplyRpcForms ==
    /\ fnName = "rpcForms"
    /\ fnResult = NotApplied
    /\ fnResult' =
          IF fnArgs.kind = "query"
          THEN [bound  |-> rpcOutcome("useRpcQuery", fnArgs),
                direct |-> rpcOutcome("createRpcQuery", fnArgs)]
          ELSE [bound  |-> rpcOutcome("useRpcMutation", fnArgs),
                direct |-> rpcOutcome("createRpcMutation", fnArgs)]
    /\ UNCHANGED <<coreVars, httpVars, rpcVars, pageVars>>
    /\ UNCHANGED <<fnName, fnArgs>>

\* ---- the options records of the HTTP factories ----
HttpCallerOptions ==
    {rest([path |-> p, urlParams |-> "undefined", payload |-> b,
           headers |-> "undefined", runtime |-> r,
           queryKey |-> <<"custom", "key">>, queryFn |-> CallerFn,
           mutationFn |-> CallerFn, staleTime |-> 5000], absent) :
        p \in {"undefined", "{id:123}"}, b \in {"undefined", "{title:'a'}"},
        r \in {"runtimeA", "runtimeB"},
        absent \in SUBSET {"queryKey", "queryFn", "mutationFn", "staleTime"}}

ApplyHttpOptions ==
    /\ fnName = "httpOptions"
    /\ fnResult = NotApplied
    /\ fnResult' = IF fnArgs.factory = "makeHttpApiQuery"
                   THEN queryOptions(Group, Endpoint, fnArgs.opts)
                   ELSE mutationOptions(Group, Endpoint, fnArgs.opts)
    /\ UNCHANGED <<coreVars, httpVars, rpcVars, pageVars>>
    /\ UNCHANGED <<fnName, fnArgs>>

\* ---- runtime.dispose(), called again and again on one runtime ----
\* dispose calls made on one runtime
MaxDisposeCalls == 3

OpenRuntime == [scope |-> "open", released |-> 0, calls |-> 0, threw |-> FALSE]

\* Mutant: closing a scope that is already closed runs its finalizers again.
closeScopeAgain(rt) == [rt EXCEPT !.scope = "closing"]

\* The disposal effect closes the runtime's scope: an open scope starts
\* running its finalizers, a scope already closing or closed is left alone.
closeScope(rt) == IF rt.scope = "open" THEN [rt EXCEPT !.scope = "closing"] ELSE rt

\* onCleanup(() => runtime.dispose()), afterEach(() => runtime.dispose()),
\* or the application's own call.
ApplyDispose ==
    /\ fnName = "dispose"
    /\ LET rt == IF fnResult = NotApplied THEN OpenRuntime ELSE fnResult
       IN  /\ rt.calls < MaxDisposeCalls
           /\ fnResult' = [closeScope(rt) EXCEPT !.calls = rt.calls + 1]
    /\ UNCHANGED <<coreVars, httpVars, rpcVars, pageVars>>
    /\ UNCHANGED <<fnName, fnArgs>>

\* The closing scope runs the release actions of what the layer acquired.
ApplyRelease ==
    /\ fnName = "dispose"
    /\ fnResult # NotApplied
    /\ fnResult.scope = "closing"
    /\ fnResult' = [fnResult EXCEPT
                        !.scope = "closed",
                        !.released = @ + (IF fnArgs.built
                                          THEN releasesOf(fnArgs.layer) ELSE 0)]
    /\ UNCHANGED <<coreVars, httpVars, rpcVars, pageVars>>
    /\ UNCHANGED <<fnName, fnArgs>>

InitFn ==
    /\ fnName \in {"rpcQueryKey", "httpQueryKey", "rpcQueryFn", "rpcForms",
                   "httpOptions", "dispose"}
    /\ fnArgs \in CASE fnName = "rpcQueryKey"  -> [{1, 2} -> RpcKeyInputs]
                    [] fnName = "httpQueryKey" -> [{1, 2} -> KeyOpts]
                    [] fnName = "rpcQueryFn"   -> RpcFnInputs
                    [] fnName = "rpcForms"     -> RpcFormInputs
                    [] fnName = "httpOptions"  ->
                          [factory : {"makeHttpApiQuery", "makeHttpApiMutation"},
                           opts : HttpCallerOptions]
                    [] fnName = "dispose"      -> [layer : Layers, built : BOOLEAN]
    /\ fnResult = NotApplied

NextFn ==
    \/ ApplyRpcQueryKey
    \/ ApplyHttpQueryKey
    \/ ApplyRpcQueryFn
    \/ ApplyRpcForms
    \/ ApplyHttpOptions
    \/ ApplyDispose
    \/ ApplyRelease

InitSpecFn ==
    InitFn /\ InitCoreIdle /\ InitHttpIdle /\ InitRpcIdle /\ InitPagesIdle

SpecFn == InitSpecFn /\ [][NextFn]_vars

-----------------------------------------------------------------------------
(* useEffectInfiniteQuery: the hook takes the runtime when it is created,   *)
(* the cache resolves a pageParam for each page fetch and calls the         *)
(* synthesized queryFn with it.                                             *)

\* page fetches in one behaviour
MaxPageFetches == 3
\* times the value returned by the runtime accessor changes
MaxRuntimeChanges == 1

initialPageParam == 0
\* getNextPageParam / getPreviousPageParam of the caller: the neighbour page.
getNextPageParam(lastPageParam) == lastPageParam + 1
getPreviousPageParam(firstPageParam) == firstPageParam - 1

\* The caller's queryFn: the effect that loads the page of a pageParam, or
\* the failing effect of the options for the pages that fail.
userQueryFn(opts, pageParam) ==
    IF pageParam \in opts.failing
    THEN opts.effect
    ELSE Effect("succeed", <<"page", pageParam>>, 0)

NoFetch == [state |-> "none", direction |-> "none", pageParam |-> 0, call |-> 0]

InitPages ==
    /\ iRuntime = [accessor |-> 1, hook |-> 1]
    /\ \E opts \in [throwOnDefect : Flags,
                     failing : {{}, {0}, {1}},
                     effect : {e \in Effects : e.kind \in {"fail", "die", "failAndDie"}}] :
          iQuery = [options |-> opts, pages |-> <<>>, pageParams |-> <<>>,
                    fetch |-> NoFetch, status |-> "pending", error |-> Undefined]
    /\ iCalls = <<>>

\* The pageParam the cache resolves for the next fetch in a direction.
resolvePageParam(pageParams, direction) ==
    IF pageParams = <<>> THEN initialPageParam
    ELSE IF direction = "forward"
         THEN getNextPageParam(pageParams[Len(pageParams)])
         ELSE getPreviousPageParam(pageParams[1])

\* Mutant: every page is asked for with the initial pageParam.
pageCallInitial(pageParam) ==
    [pageParam |-> initialPageParam, ranOn |-> iRuntime.hook,
     accessor |-> iRuntime.accessor]

\* opts.queryFn({ pageParam, signal }) is called and its effect is started
\* with Runtime.runPromiseExit(runtime), runtime being the one the hook took
\* when it was created.
pageCall(pageParam) ==
    [pageParam |-> pageParam, ranOn |-> iRuntime.hook,
     accessor |-> iRuntime.accessor]

\* fetchNextPage / fetchPreviousPage, or the first fetch: the cache calls
\* the synthesized queryFn with the resolved pageParam.
IFetchPage(direction) ==
    /\ iQuery.fetch.state # "running"
    /\ Len(iCalls) < MaxPageFetches
    /\ direction = "backward" => iQuery.pages # <<>>
    /\ LET pageParam == resolvePageParam(iQuery.pageParams, direction)
       IN  /\ iCalls' = Append(iCalls, pageCall(pageParam))
           /\ iQuery' = [iQuery EXCEPT !.fetch =
                            [state |-> "running", direction |-> direction,
                             pageParam |-> pageParam, call |-> Len(iCalls) + 1]]
    /\ UNCHANGED <<coreVars, httpVars, rpcVars, fnVars>>
    /\ UNCHANGED iRuntime

\* The page's effect ends: the queryFn returns its value or throws, and the
\* cache adds the page at the end it was fetched for.
ISettle ==
    /\ iQuery.fetch.state = "running"
    /\ LET fetch == iQuery.fetch
           exit  == runExit(userQueryFn(iQuery.options,
                                        iCalls[fetch.call].pageParam))
           ended == [fetch EXCEPT !.state = "done"]
       IN  iQuery' =
             IF isFailure(exit)
             THEN [iQuery EXCEPT
                     !.fetch = ended, !.status = "error",
                     !.error = infiniteRejection(exit.cause,
                                                 iQuery.options.throwOnDefect)]
             ELSE [iQuery EXCEPT
                     !.fetch = ended, !.status = "success", !.error = Undefined,
                     !.pages = IF fetch.direction = "backward"
                               THEN <<exit.value>> \o @ ELSE Append(@, exit.value),
                     !.pageParams = IF fetch.direction = "backward"
                                    THEN <<fetch.pageParam>> \o @
                                    ELSE Append(@, fetch.pageParam)]
    /\ UNCHANGED <<coreVars, httpVars, rpcVars, fnVars>>
    /\ UNCHANGED <<iRuntime, iCalls>>

\* The runtime accessor starts returning another runtime; the hook is not
\* created again.
IRuntimeChange ==
    /\ iRuntime.accessor <= MaxRuntimeChanges
    /\ iRuntime' = [iRuntime EXCEPT !.accessor = @ + 1]
    /\ UNCHANGED <<coreVars, httpVars, rpcVars, fnVars>>
    /\ UNCHANGED <<iQuery, iCalls>>

NextPages ==
    \/ \E direction \in {"forward", "backward"} : IFetchPage(direction)
    \/ ISettle
    \/ IRuntimeChange

InitSpecPages ==
    InitPages /\ InitCoreIdle /\ InitHttpIdle /\ InitRpcIdle /\ InitFnIdle

SpecPages == InitSpecPages /\ [][NextPages]_vars

-----------------------------------------------------------------------------
(* Properties of the core hooks *)

queryEnded    == hook \in {"query", "infinite"} /\ fiber.state = "done"
mutationEnded == hook = "mutation" /\ mpc = "done"
theEffect     == IF hook = "mutation"
                 THEN mutationFn(options.effect, mcall.variables)
                 ELSE options.effect

\* C1: with throwOnDefect absent or false, a query or mutation whose effect
\* fails with the expected error E ends in the error state, and its error is
\* a Cause whose expected failures are exactly <<E>>; it is never the bare E.
C1_DefaultFailureIsCause ==
    ( /\ queryEnded \/ mutationEnded
      /\ ~truthy(options.throwOnDefect)
      /\ theEffect.kind = "fail" )
    => /\ result.status = "error"
       /\ isCause(result.error)
       /\ failures(result.error) = <<theEffect.value>>
       /\ result.error # Plain(theEffect.value)

C1_Witness ==
    /\ mutationEnded
    /\ options.throwOnDefect = "undefined"
    /\ theEffect.kind = "fail"
    /\ result.status = "error"
    /\ isCause(result.error)

C3_DefectStaysCause ==
    ( /\ queryEnded
      /\ options.effect.kind \in {"die", "interrupt"} )
    => /\ result.status = "error"
       /\ isCause(result.error)
       /\ result.error = runExit(options.effect).cause
       /\ failures(result.error) = <<>>

C3_Witness ==
    /\ queryEnded
    /\ hook = "infinite"
    /\ options.throwOnDefect = "true"
    /\ options.effect.kind = "die"
    /\ result.error = Die("Unexpected crash!")

\* C4: the promise of mutateAsync never rejects because the mutation effect
\* failed: it resolves with the effect's Exit, a Success carrying the value
\* or a Failure carrying the Cause.
C4_MutateAsyncResolvesExit ==
    /\ \A c \in 1..MaxMutations : settled[c].how # "rejected"
    /\ (mutationEnded /\ mcall.mode = "mutateAsync")
       => /\ settled[mcall.id].how = "resolved"
          /\ IF options.effect.kind = "succeed"
             THEN settled[mcall.id].value = Success(mcall.variables)
             ELSE /\ isFailure(settled[mcall.id].value)
                  /\ settled[mcall.id].value.cause = runExit(options.effect).cause

C4_Witness ==
    /\ mutationEnded
    /\ mcall.mode = "mutateAsync"
    /\ options.effect.kind = "fail"
    /\ settled[mcall.id].how = "resolved"
    /\ isFailure(settled[mcall.id].value)

\* The events of the mutate call in progress, and what a successful call
\* is to leave: the provided callbacks around the mutation effect, in order.
eventsOfCall == SelectSeq(events, LAMBDA e : e.call = mcall.id)
provided(name) == name = "mutationFn" \/ name \in options.callbacks
contextOfCall == IF "onMutate" \in options.callbacks
                 THEN Plain(mcall.variables) ELSE Undefined
successLifecycle ==
    SelectSeq(
      << [call |-> mcall.id, name |-> "onMutate",
          args |-> <<Plain(mcall.variables)>>],
         [call |-> mcall.id, name |-> "mutationFn",
          args |-> <<Plain(mcall.variables)>>],
         [call |-> mcall.id, name |-> "onSuccess",
          args |-> <<Plain(mcall.variables), Plain(mcall.variables), contextOfCall>>],
         [call |-> mcall.id, name |-> "onSettled",
          args |-> <<Plain(mcall.variables), Null, Plain(mcall.variables),
                     contextOfCall>>] >>,
      LAMBDA e : provided(e.name))

\* C5: for one mutate(v) call whose effect succeeds with data d, onMutate(v),
\* the mutation effect, onSuccess and onSettled run in this order, each
\* exactly once; onSuccess receives d and the context onMutate returned;
\* onError does not run.
C5_SuccessLifecycleOrder ==
    (mutationEnded /\ isSuccess(mcall.exit))
    => /\ eventsOfCall = successLifecycle
       /\ \A i \in DOMAIN eventsOfCall : eventsOfCall[i].name # "onError"

C5_Witness ==
    /\ mutationEnded
    /\ isSuccess(mcall.exit)
    /\ options.callbacks = Callbacks
    /\ mcall.id = 2
    /\ Len(eventsOfCall) = 4

\* C6: when the scope owning a query is torn down while the query's effect
\* is in flight, the effect is interrupted, does not complete normally, and
\* every onInterrupt handler it registered runs.
C6_TeardownInterrupts ==
    [][ ( /\ hook = "query"
          /\ fiber.state = "running"
          /\ provider = "mounted" /\ provider' = "unmounted" )
        => /\ fiber'.state = "interrupted"
           /\ fiber'.exit = Failure(Interrupt)
           /\ fiber'.handlersRun = options.effect.handlers
           /\ result' = result ]_vars
    /\ [][ fiber.state = "interrupted" => fiber'.state = "interrupted" ]_vars

C6_Witness ==
    /\ hook = "query"
    /\ provider = "unmounted"
    /\ fiber.state = "interrupted"
    /\ options.effect.handlers = MaxHandlers
    /\ fiber.handlersRun = MaxHandlers

\* C7: the release action of the Provider's scoped layer never runs while
\* the Provider is mounted; unmounting starts the disposal without waiting
\* for it; once unmounted, the release action eventually runs, once.
C7_ReleaseAfterUnmount ==
    /\ [](provider = "mounted" => released = 0)
    /\ [](released <= releasesOf(options.layer))
    /\ [][ (provider = "mounted" /\ provider' = "unmounted")
           => (runtime' = "disposing" /\ released' = released) ]_vars
    /\ (provider = "unmounted" /\ options.layer = "scoped") ~> (released = 1)

C7_Witness ==
    /\ provider = "unmounted"
    /\ options.layer = "scoped"
    /\ runtime = "disposed"
    /\ released = 1

C24_PageParamThreaded ==
    /\ [](/\ Len(iQuery.pages) = Len(iQuery.pageParams)
          /\ \A j \in DOMAIN iQuery.pages :
                Success(iQuery.pages[j]) =
                    runExit(userQueryFn(iQuery.options, iQuery.pageParams[j]))
          /\ iQuery.fetch.state # "none" =>
                /\ iQuery.fetch.call = Len(iCalls)
                /\ iCalls[iQuery.fetch.call].pageParam = iQuery.fetch.pageParam
          /\ (iCalls # <<>>) => iCalls[1].pageParam = initialPageParam)
    /\ [][ iCalls' # iCalls =>
             /\ Len(iCalls') = Len(iCalls) + 1
             /\ iQuery'.fetch.state = "running"
             /\ iQuery.fetch.state # "running" ]_vars

\* Three pages: the initial one, the next one and the previous one.
C24_Witness ==
    /\ iQuery.fetch.state = "done"
    /\ iQuery.pageParams = <<-1, 0, 1>>
    /\ iQuery.pages = <<(<<"page", -1>>), (<<"page", 0>>), (<<"page", 1>>)>>
    /\ Len(iCalls) = 3

\* C25: with throwOnDefect on, a query or page fetch whose Cause holds a
\* defect next to the expected failure E is rejected with the raw Cause; E
\* alone is the error only when the Cause holds nothing but E.
C25_MixedCauseStaysCause ==
    ( /\ queryEnded
      /\ truthy(options.throwOnDefect)
      /\ options.effect.kind = "failAndDie" )
    => /\ result.status = "error"
       /\ isCause(result.error)
       /\ result.error = runExit(options.effect).cause

\* C26: every page fetch runs on the runtime the runtime accessor returns
\* when the fetch starts, not on the one that was current when the hook was
\* created.
C26_RunsOnCurrentRuntime ==
    \A i \in DOMAIN iCalls : iCalls[i].ranOn = iCalls[i].accessor

-----------------------------------------------------------------------------
(* Properties of the HTTP endpoint factory *)

\* C8: no queryFn or mutationFn invocation starts running an effect on a
\* runtime whose disposal has already begun, fetches and refetches after
\* the cleanup of the component that owns the runtime included.
C8_NoRunAfterDisposalBegins ==
    \A i \in DOMAIN hRuns : hRuns[i].runtime = "live"

\* C14: when the endpoint call of an HTTP query or mutation fails, the error
\* the cache records and the result exposes is a Cause.
C14_HttpErrorIsCause ==
    /\ \A k \in DOMAIN hEntry.cache :
          hEntry.cache[k].status = "error" => isCause(hEntry.cache[k].error)
    /\ hMutation.status = "error" => isCause(hMutation.error)

\* C15: when the cache cancels an in-flight fetch and its abort signal
\* fires, the effect of the fetch is interrupted; it is not left running
\* to completion with its outcome ignored.
C15_AbortInterruptsEffect ==
    \A i \in DOMAIN hRuns : hRuns[i].aborted => hRuns[i].state = "interrupted"

\* The last fetch of an entry, started on a live runtime, has settled.
settledFetch(k) ==
    /\ hEntry.cache[k].run > 0
    /\ ~hEntry.cache[k].fetching
    /\ ~hRuns[hEntry.cache[k].run].aborted
    /\ hRuns[hEntry.cache[k].run].runtime = "live"

isFetching(k) == k \in DOMAIN hEntry.cache /\ hEntry.cache[k].fetching

reportsMissingService(error) ==
    /\ error.typeId = "FiberFailure"
    /\ defects(error.cause) = <<ServiceNotFound>>

\* C19: an HTTP query on a runtime without the HttpClient service never
\* reaches success, every fetch of it settles, and it settles in the error
\* state with an error that reports the missing service; on a runtime with
\* the service a successful response settles the query in success with the
\* decoded response as data.
C19_MissingClientSettlesInError ==
    /\ [](\A k \in DOMAIN hEntry.cache :
            ~providesClient(hLayer) =>
                /\ hEntry.cache[k].status # "success"
                /\ settledFetch(k) =>
                      /\ hEntry.cache[k].status = "error"
                      /\ reportsMissingService(hEntry.cache[k].error))
    /\ [](\A k \in DOMAIN hEntry.cache :
            ( /\ providesClient(hLayer)
              /\ settledFetch(k)
              /\ hRuns[hEntry.cache[k].run].response = "200" )
            => /\ hEntry.cache[k].status = "success"
               /\ hEntry.cache[k].data = Plain("decoded"))
    /\ \A k \in HttpKeys : isFetching(k) ~> ~isFetching(k)

C19_Witness ==
    /\ ~providesClient(hLayer)
    /\ \E k \in DOMAIN hEntry.cache :
          /\ settledFetch(k)
          /\ hEntry.cache[k].status = "error"
          /\ reportsMissingService(hEntry.cache[k].error)

buildsOf(kind) ==
    Cardinality({i \in DOMAIN hRuns : hRuns[i].kind = kind /\ hRuns[i].built})

\* C20: over the life of one factory the typed client is built at most
\* once, whatever the number of queryFn / mutationFn invocations.
C20_ClientBuiltAtMostOnce ==
    /\ buildsOf("query") <= 1
    /\ buildsOf("mutation") <= 1

startsFetch ==
    \/ \E k \in DOMAIN hEntry.cache :
          /\ ~hEntry.cache[k].fetching
          /\ hEntry'.cache[k].fetching
          /\ hEntry'.cache[k].run = Len(hRuns')
    \/ /\ ~hMutation.running
       /\ hMutation'.running
       /\ hMutation'.run = Len(hRuns')

-----------------------------------------------------------------------------
(* Properties of the RPC factory *)

\* The RPC side of C27: the remote procedure is invoked only as part of a
\* fetch the cache starts, once per fetch, and a query that is not enabled
\* invokes nothing however often its payload changes.
rpcInvokesOnlyOnFetch ==
    /\ [][ Len(rCalls') # Len(rCalls) =>
             /\ Len(rCalls') = Len(rCalls) + 1
             /\ \E k \in DOMAIN rCache' :
                   /\ rCache'[k].fetching
                   /\ k \in DOMAIN rCache => ~rCache[k].fetching ]_vars
    /\ []((~rStale.enabled /\ rObserved.refetches = 0) => rCalls = <<>>)

\* The scenario of C9: an enabled query is mounted, every change of the
\* payload came when no fetch was in flight, and nothing asked the cache for
\* a refetch.
settledBetweenChanges ==
    /\ rObserved.mounted
    /\ rStale.enabled
    /\ rObserved.sequential
    /\ rObserved.refetches = 0

C10_EntriesKeyedByPayload ==
    /\ rChanges >= 1 => Cardinality(DOMAIN rCache) >= 2
    /\ \A k \in DOMAIN rCache :
          /\ k = <<rCache[k].queryFn.tag, rCache[k].queryFn.currentPayload>>
          /\ rCache[k].data # Undefined =>
                rCache[k].data = Plain(remote(k[1], k[2]))

\* The payload changed while the previous fetch was in flight, the old fetch
\* was left to finish, and both entries hold their own answers.
C10_Witness ==
    /\ ~rObserved.sequential
    /\ rObserved.refetches = 0
    /\ rChanges = 1
    /\ Len(rCalls) = 2
    /\ Cardinality(DOMAIN rCache) = 2
    /\ \A k \in DOMAIN rCache : rCache[k].data = Plain(remote(k[1], k[2]))

-----------------------------------------------------------------------------
(* Properties of the factories' functions *)

applied(name) == fnName = name /\ fnResult # NotApplied

\* C11: the key useRpcQuery and createRpcQuery produce for procedure T and
\* payload p is exactly <<T, p>>; so two calls produce equal keys exactly
\* when they name the same procedure with deep-equal payloads.
C11_RpcKeyIsTagAndPayload ==
    applied("rpcQueryKey") =>
        /\ \A i \in {1, 2} : fnResult[i] = <<fnArgs[i].tag, fnArgs[i].payload>>
        /\ (fnResult[1] = fnResult[2]) <=>
              ( /\ fnArgs[1].tag = fnArgs[2].tag
                /\ fnArgs[1].payload = fnArgs[2].payload )

\* The bound form and the direct form, same procedure and payload: one key.
C11_Witness ==
    /\ applied("rpcQueryKey")
    /\ fnArgs[1].form = "useRpcQuery" /\ fnArgs[2].form = "createRpcQuery"
    /\ fnArgs[1].tag = fnArgs[2].tag
    /\ fnArgs[1].payload = [id |-> 2] /\ fnArgs[2].payload = [id |-> 2]
    /\ fnResult[1] = fnResult[2]
    /\ Len(fnResult[1]) = 2

supplied(v) == v # "undefined"
suppliedPart(label, v) == IF supplied(v) THEN <<label, v>> ELSE <<>>

\* C12: the key of an HTTP endpoint query is "httpApi", the group, the
\* endpoint, then for path, urlParams, payload, headers in this order the
\* label and value of each field that is supplied, and nothing for a field
\* that is not supplied.
C12_HttpKeyListsSuppliedFields ==
    applied("httpQueryKey") =>
        \A i \in {1, 2} :
            fnResult[i] = <<"httpApi", Group, Endpoint>>
                            \o suppliedPart("path", fnArgs[i].path)
                            \o suppliedPart("urlParams", fnArgs[i].urlParams)
                            \o suppliedPart("payload", fnArgs[i].payload)
                            \o suppliedPart("headers", fnArgs[i].headers)

\* C13: for one group and endpoint, two option records produce equal keys
\* exactly when their request parameters are equal, whatever the supplied
\* values are (0, '', false and null included) and for a field supplied
\* against the same field absent.
C13_HttpKeyInjective ==
    applied("httpQueryKey") =>
        ((fnArgs[1] = fnArgs[2]) <=> (fnResult[1] = fnResult[2]))

\* C17: when the RPC client service cannot be resolved from the runtime, a
\* query or mutation of either form fails with a defect: the Cause holds no
\* expected failure, and the error stays that Cause under every value of
\* throwOnDefect.
C17_MissingServiceIsDefect ==
    (applied("rpcQueryFn") /\ fnArgs.service = "missing") =>
        /\ isFailure(fnResult.exit)
        /\ failures(fnResult.exit.cause) = <<>>
        /\ defects(fnResult.exit.cause) # <<>>
        /\ fnResult.result.status = "error"
        /\ isCause(fnResult.result.error)
        /\ fnResult.result.error = fnResult.exit.cause

C17_Witness ==
    /\ applied("rpcQueryFn")
    /\ fnArgs.service = "missing"
    /\ fnArgs.form = "createRpcQuery"
    /\ fnArgs.throwOnDefect = "true"
    /\ isCause(fnResult.result.error)
    /\ defects(fnResult.result.error) # <<>>

\* C18: when the remote procedure of an RPC query fails with E, the factory
\* changes nothing: the effect's Exit is the procedure's, and the query's
\* error (throwOnDefect not set, as the RPC option types have it) is a Cause
\* whose expected failures are exactly <<E>>.
C18_RpcErrorUnmodified ==
    ( /\ applied("rpcQueryFn")
      /\ fnArgs.form \in RpcQueryForms
      /\ fnArgs.service = "provided"
      /\ isFailure(fnArgs.remote)
      /\ failures(fnArgs.remote.cause) # <<>> )
    => /\ fnResult.exit = fnArgs.remote
       /\ ~truthy(fnArgs.throwOnDefect) =>
             /\ fnResult.result.status = "error"
             /\ isCause(fnResult.result.error)
             /\ failures(fnResult.result.error) = failures(fnArgs.remote.cause)
             /\ Len(failures(fnResult.result.error)) = 1

C18_Witness ==
    /\ applied("rpcQueryFn")
    /\ fnArgs.form = "useRpcQuery"
    /\ fnArgs.service = "provided"
    /\ fnArgs.remote = Failure(Fail("UserNotFound"))
    /\ fnArgs.throwOnDefect = "undefined"
    /\ failures(fnResult.result.error) = <<"UserNotFound">>

\* C22: when a provided onMutate, onSuccess, onError or onSettled callback
\* of an RPC mutation throws, the effect wrapping it ends in a failure whose
\* Cause holds the thrown value as its only defect and no expected failure,
\* and running it rejects with that Cause: it is neither success nor lost.
C22_CallbackThrowIsDefect ==
    (applied("rpcForms") /\ fnArgs.kind = "mutation") =>
        \A f \in {"bound", "direct"}, n \in Callbacks :
            (n \in DOMAIN fnArgs.base /\ fnArgs.base[n].behaviour = "throws") =>
                LET ran == fnResult[f].callbacks[n]
                IN  /\ ran.exit = Failure(Die("thrown"))
                    /\ defects(ran.exit.cause) = <<"thrown">>
                    /\ failures(ran.exit.cause) = <<>>
                    /\ ran.settles = [how |-> "rejected", value |-> Die("thrown")]

\* onError throws after a failed remote call; onSuccess is not provided.
C22_Witness ==
    /\ applied("rpcForms")
    /\ fnArgs.kind = "mutation"
    /\ isFailure(fnArgs.remote)
    /\ "onSuccess" \notin DOMAIN fnArgs.base
    /\ "onError" \in DOMAIN fnArgs.base
    /\ fnArgs.base["onError"].behaviour = "throws"
    /\ fnResult["direct"].callbacks["onError"].settles.how = "rejected"
    /\ fnResult["bound"].callbacks["onSuccess"].settles.how = "notCalled"

generatedFn(fn) == "typeId" \notin DOMAIN fn

\* C29: the options record a factory hands on always carries the generated
\* queryKey and queryFn (mutationFn for mutations), also when the caller put
\* a queryKey, queryFn or mutationFn of their own in the options accessor,
\* and every other option of the caller is in it unchanged; the callbacks of
\* an RPC mutation are in it as wrappers of the caller's callbacks.
C29_GeneratedKeyAndFnWin ==
    /\ (applied("httpOptions") /\ fnArgs.factory = "makeHttpApiQuery") =>
          /\ fnResult.queryKey = httpQueryKey(Group, Endpoint, fnArgs.opts)
          /\ generatedFn(fnResult.queryFn)
          /\ fnResult.queryFn.runtime = fnArgs.opts.runtime
          /\ \A f \in DOMAIN fnArgs.opts \
                      {"path", "urlParams", "payload", "headers", "runtime",
                       "queryKey", "queryFn"} :
                f \in DOMAIN fnResult /\ fnResult[f] = fnArgs.opts[f]
    /\ (applied("httpOptions") /\ fnArgs.factory = "makeHttpApiMutation") =>
          /\ generatedFn(fnResult.mutationFn)
          /\ fnResult.mutationFn.runtime = fnArgs.opts.runtime
          /\ \A f \in DOMAIN fnArgs.opts \ {"runtime", "mutationFn"} :
                f \in DOMAIN fnResult /\ fnResult[f] = fnArgs.opts[f]
    /\ (applied("rpcForms") /\ fnArgs.kind = "query") =>
          \A v \in {"bound", "direct"} :
              LET o == fnResult[v].options
              IN  /\ o.queryKey = <<fnArgs.tag, fnArgs.payload>>
                  /\ generatedFn(o.queryFn)
                  /\ o.queryFn.currentPayload = fnArgs.payload
                  /\ \A f \in DOMAIN fnArgs.base \ {"queryKey", "queryFn"} :
                        f \in DOMAIN o /\ o[f] = fnArgs.base[f]
    /\ (applied("rpcForms") /\ fnArgs.kind = "mutation") =>
          \A v \in {"bound", "direct"} :
              LET o == fnResult[v].options
              IN  /\ generatedFn(o.mutationFn)
                  /\ o.mutationFn.tag = fnArgs.tag
                  /\ \A f \in DOMAIN fnArgs.base \ ({"mutationFn"} \cup Callbacks) :
                        f \in DOMAIN o /\ o[f] = fnArgs.base[f]
                  /\ \A n \in Callbacks :
                        IF n \in DOMAIN fnArgs.base
                        THEN o[n].callback = fnArgs.base[n]
                        ELSE o[n] = Undefined

\* The caller supplied a key, a queryFn and a staleTime: the key and the
\* queryFn are the generated ones, the staleTime is the caller's.
C29_Witness ==
    /\ applied("httpOptions")
    /\ fnArgs.factory = "makeHttpApiQuery"
    /\ fnArgs.opts.path = "{id:123}"
    /\ {"queryKey", "queryFn", "staleTime"} \subseteq DOMAIN fnArgs.opts
    /\ fnArgs.opts.queryKey = <<"custom", "key">>
    /\ fnResult.queryKey = <<"httpApi", Group, Endpoint, "path", "{id:123}">>
    /\ fnResult.queryFn.path = "{id:123}"
    /\ fnResult.staleTime = 5000

\* C30: on the same procedure, payload, runtime and options the bound form
\* and the direct form give the same key, invoke the client with the same
\* procedure and payload, end in the same Exit and the same result (data or
\* Cause), and wrap the same callbacks handing them the same arguments.
C30_FormsEquivalent ==
    applied("rpcForms") =>
        /\ fnResult["bound"].options = fnResult["direct"].options
        /\ fnResult["bound"].invoked = fnResult["direct"].invoked
        /\ fnResult["bound"].exit = fnResult["direct"].exit
        /\ fnResult["bound"].result = fnResult["direct"].result
        /\ fnResult["bound"].callbacks = fnResult["direct"].callbacks

\* A mutation with all four callbacks whose remote call fails with E: both
\* forms invoke the procedure with the payload and end in the Cause of E.
C30_Witness ==
    /\ applied("rpcForms")
    /\ fnArgs.kind = "mutation"
    /\ Callbacks \subseteq DOMAIN fnArgs.base
    /\ fnArgs.service = "provided"
    /\ fnArgs.remote = Failure(Fail("ValidationError"))
    /\ fnResult["bound"].invoked = <<fnArgs.tag, fnArgs.payload>>
    /\ fnResult["direct"].result.error = Fail("ValidationError")
    /\ fnResult["bound"].callbacks["onSettled"].passes = <<1, 2, 3, 4>>

=============================================================================
